---- MODULE Spec2Model ----
(***************************************************************************)
(* Model of the Flask transcription application (src/app.py) and of its   *)
(* TranscriptionService (src/transcription_service.py).                   *)
(*                                                                         *)
(* jobs_status is the module-level dict of app.py; every job is a Python  *)
(* dict, modelled as a function whose DOMAIN is the set of keys present.  *)
(* A background thread (threading.Thread, app.py:109) executes            *)
(* process_transcription; its steps are the statements between two        *)
(* writes of the shared job dict or two external calls.  The Flask        *)
(* handlers run on request threads; start_transcription is split at the   *)
(* point between its status test (line 100) and its writes (line 104),    *)
(* the other handlers only read and are one step each.                    *)
(*                                                                         *)
(* Message texts are the source's, written without diacritics.            *)
(***************************************************************************)
EXTENDS Integers, Sequences, FiniteSets, TLC

\* ------------------------------------------------------------------ bounds
\* Number of job ids the uploads of one behaviour can create.
NumJobs == 1
\* The polling clock (seconds since start_time, line 154) is kept up to this
\* value: both band formulas are constant from 9 seconds on.
ElapsedCap == 9
\* The conversion clock (tenths of a second since start_time, line 66) is
\* kept up to this value: the yielded progress is constant from 90 on.
ConvClockCap == 120
\* The longest utterance list of the payloads the report is rendered from.
MaxUtterances == 3

\* -------------------------------------------------------- program constants
max_attempts == 60
base_progress == 55
PollInterval == 5

JobIds == 1..NumJobs
\* The background threads the start requests of one behaviour can spawn: two
\* runs of one job, or one run of each of two jobs.
Threads == {1, 2}

\* The extensions upload_file accepts (app.py:58).
allowed_extensions == {"mp3", "wav", "m4a", "flac", "aac", "ogg", "opus"}
\* The suffixes transcribe_audio converts (transcription_service.py:283).
ConvertSuffixes == {"m4a", "aac", "ogg", "opus"}
\* The extensions the modelled clients send: one that is uploaded as it is,
\* one that is converted, one that is refused.
UploadExts == {"mp3", "ogg", "txt"}
\* The saved name without its extension ("<timestamp>_<secure filename stem>").
Stems == {"t_a"}
\* What one iteration of the encoder-polling loop of convert_to_mp3 can take,
\* in tenths of a second (two sleeps of 0.1 s at least).
TickSteps == {30, 60}
\* What the provider reports in the "status" field of a poll.
RemoteStatus == {"queued", "processing", "completed", "error"}

\* ------------------------------------------------------------ Python dicts
EmptyDict == [k \in {} |-> 0]
Put(d, k, v) == [x \in DOMAIN d \cup {k} |-> IF x = k THEN v ELSE d[x]]
\* dict.get(k): None when the key is missing.
Get(d, k) == IF k \in DOMAIN d THEN d[k] ELSE "None"
\* dict.get(k, default)
GetOr(d, k, default) == IF k \in DOMAIN d THEN d[k] ELSE default

Min(a, b) == IF a < b THEN a ELSE b

\* ------------------------------------------------------------------- files
Path(dir, stem, ext) == [dir |-> dir, stem |-> stem, ext |-> ext]
\* Path.with_suffix('.mp3')
with_suffix_mp3(p) == [p EXCEPT !.ext = "mp3"]
\* save_transcript: "<timestamp>_<stem of the input name>_transcript.txt"
TranscriptPath(p) == Path("results", p.stem \o "_transcript", "txt")

\* What a file holds: the audio a client uploaded for job j, the output of the
\* encoder run for job j (whole after exit code 0, partial otherwise), or a
\* report (content, below).
Upload(j) == [kind |-> "upload", job |-> j]
Encoded(j, whole) == [kind |-> "mp3", job |-> j, whole |-> whole]
\* Path.unlink()
unlink(fs, p) == [q \in DOMAIN fs \ {p} |-> fs[q]]

\* -------------------------------------------------------- provider payload
Utt(sp, st, en) == [speaker |-> sp, start |-> st, end |-> en]
\* The bodies a completed poll can carry: two speakers with a language
\* code, and no utterance and no language code.
Payloads ==
  { Put(Put(EmptyDict, "language_code", "pt"), "utterances",
        <<Utt("A", 1000, 2000), Utt("B", 3000, 4000)>>),
    Put(EmptyDict, "utterances", <<>>) }

\* The payloads the report is rendered from: every list of up to
\* MaxUtterances utterances of two speakers that start at 1 s, 5 s or
\* 1 h 2 min 3 s (in milliseconds, as the provider sends them) and last half
\* a second, with or without a language code.
ReportStarts == {1000, 5000, 3723000}
ReportUtterances ==
  {Utt(sp, st, st + 500) : sp \in {"A", "B"}, st \in ReportStarts}
ReportPayloads ==
  LET lists == UNION {[1..n -> ReportUtterances] : n \in 0..MaxUtterances}
  IN  {Put(EmptyDict, "utterances", us) : us \in lists}
        \cup {Put(Put(EmptyDict, "language_code", "pt"), "utterances", us) :
                us \in lists}

\* speakers_count counting the utterances
speakers_count_len(data) == Len(GetOr(data, "utterances", <<>>))

\* len(set(u.get('speaker', 'A') for u in utterances)) if utterances else 0
speakers_count(data) ==
  LET utterances == GetOr(data, "utterances", <<>>)
  IN  IF utterances = <<>> THEN 0
      ELSE Cardinality({GetOr(utterances[i], "speaker", "A") :
                          i \in DOMAIN utterances})

\* ------------------------------------------------------------ the report
\* sorted(utterances, key=lambda x: x.get("start", 0)), line 240: the sort is
\* stable, an element goes after the elements whose key is not greater.
\* insort_left puts it before the elements of equal key.
insort_left(s, u) ==
  LET n == Cardinality({i \in DOMAIN s :
                          GetOr(s[i], "start", 0) < GetOr(u, "start", 0)})
  IN  SubSeq(s, 1, n) \o <<u>> \o SubSeq(s, n + 1, Len(s))

insort_right(s, u) ==
  LET n == Cardinality({i \in DOMAIN s :
                          GetOr(s[i], "start", 0) <= GetOr(u, "start", 0)})
  IN  SubSeq(s, 1, n) \o <<u>> \o SubSeq(s, n + 1, Len(s))

RECURSIVE sorted(_)
sorted(utterances) ==
  IF utterances = <<>> THEN <<>>
  ELSE insort_right(sorted(SubSeq(utterances, 1, Len(utterances) - 1)),
                    utterances[Len(utterances)])

\* f"{n:02d}"
fmt02d(n) == IF n < 10 THEN "0" \o ToString(n) ELSE ToString(n)

\* lines 251-253 and 260 (255-257 and 261 for end): the value is divided as
\* it comes from the provider
hhmmss(start) ==
  fmt02d(start \div 3600) \o ":" \o fmt02d((start % 3600) \div 60)
    \o ":" \o fmt02d(start % 60)

\* One line "[start_time - end_time] Speaker speaker: text", lines 244-265
segment(utterance) ==
  [start_time |-> hhmmss(GetOr(utterance, "start", 0)),
   end_time |-> hhmmss(GetOr(utterance, "end", 0)),
   speaker |-> GetOr(utterance, "speaker", "A")]

\* The text save_transcript writes, lines 223-265: the language line when
\* the payload has one, the speaker total when there are utterances, and the
\* segments in sorted order
content(transcript_data) ==
  LET utterances == GetOr(transcript_data, "utterances", <<>>)
      utterances_sorted == sorted(utterances)
  IN  [kind |-> "report",
       language |-> Get(transcript_data, "language_code"),
       speakers |-> IF utterances # <<>>
                    THEN Cardinality({GetOr(utterances[i], "speaker", "A") :
                                        i \in DOMAIN utterances})
                    ELSE "None",
       segments |-> [i \in DOMAIN utterances_sorted |->
                       segment(utterances_sorted[i])]]

VARIABLES
  jobs_status,  \* app.py:39, job id -> job dict
  files,        \* the files under uploads/ and results/: path -> content
  thr,          \* the background threads: position and locals of each
  starting      \* per job: start requests past the test of line 100

vars == <<jobs_status, files, thr, starting>>

NoResult == [success |-> FALSE, error |-> "unset"]
IdleThread ==
  [job |-> 0, pc |-> "idle", proc |-> "none", conv |-> 0, attempts |-> 0,
   outcome |-> "none", data |-> EmptyDict, result |-> NoResult]

Init ==
  /\ jobs_status = EmptyDict
  /\ files = EmptyDict
  /\ thr = [t \in Threads |-> IdleThread]
  /\ starting = [j \in JobIds |-> 0]

\* The job dict a thread works on.
JobOf(t) == jobs_status[thr[t].job]
\* job[k] = v for the job of thread t
SetJob(t, d) == jobs_status' = [jobs_status EXCEPT ![thr[t].job] = d]
Progress(d, p, m) == Put(Put(d, "progress", p), "message", m)
Goto(t, pc) == thr' = [thr EXCEPT ![t].pc = pc]
\* process_transcription returns: the thread ends and its locals are gone
Return(t) ==
  thr' = [thr EXCEPT ![t] = [IdleThread EXCEPT !.job = thr[t].job,
                                               !.pc = "done"]]

\* =================================================================== app.py
\* upload_file, lines 47-90
upload_file(stem, ext) ==
  IF ext \notin allowed_extensions
  THEN UNCHANGED <<jobs_status, files, thr, starting>>
  ELSE \E j \in JobIds :
         /\ j \notin DOMAIN jobs_status
         /\ \A i \in JobIds : i < j => i \in DOMAIN jobs_status
         /\ files' = Put(files, Path("uploads", stem, ext), Upload(j))
         /\ jobs_status' =
              Put(jobs_status, j,
                  [status |-> "uploaded", filename |-> stem \o "." \o ext,
                   filepath |-> Path("uploads", stem, ext), progress |-> 0,
                   message |-> "Arquivo enviado com sucesso",
                   created_at |-> "now"])
         /\ UNCHANGED <<thr, starting>>

Spawned == {t \in Threads : thr[t].pc # "idle"}
RECURSIVE SumStarting(_)
SumStarting(S) ==
  IF S = {} THEN 0
  ELSE LET j == CHOOSE x \in S : TRUE IN starting[j] + SumStarting(S \ {j})

\* start_code with the test of line 100 refusing only a completed job
start_code_completed_only(j) ==
  IF j \notin DOMAIN jobs_status THEN 404
  ELSE IF jobs_status[j]["status"] = "completed" THEN 400
  ELSE 200

\* The HTTP status start_transcription answers with, from its tests of
\* lines 96-101: 404 'Job nao encontrado', 400 'Job ja processado', else 200
start_code(j) ==
  IF j \notin DOMAIN jobs_status THEN 404
  ELSE IF jobs_status[j]["status"] # "uploaded" THEN 400
  ELSE 200

\* start_transcription, lines 96-101: the lookup and the status test; a
\* refused request returns there and changes nothing
start_check(j) ==
  IF start_code(j) # 200
  THEN UNCHANGED <<jobs_status, files, thr, starting>>
  ELSE /\ Cardinality(Spawned) + SumStarting(JobIds) < Cardinality(Threads)
       /\ starting' = [starting EXCEPT ![j] = @ + 1]
       /\ UNCHANGED <<jobs_status, files, thr>>

\* start_transcription, lines 104-111: the three writes and the new thread
Launch(j) ==
  /\ jobs_status' =
       [jobs_status EXCEPT ![j] =
          Progress(Put(@, "status", "processing"), 0,
                   "Iniciando transcricao...")]
  /\ \E t \in Threads :
       /\ thr[t].pc = "idle"
       /\ \A u \in Threads : u < t => thr[u].pc # "idle"
       /\ thr' = [thr EXCEPT ![t] = [IdleThread EXCEPT !.job = j,
                                                       !.pc = "pt_start"]]

\* start_transcription, lines 104-117, of a request past the status test
start_act(j) ==
  /\ starting[j] > 0
  /\ starting' = [starting EXCEPT ![j] = @ - 1]
  /\ Launch(j)
  /\ UNCHANGED files

\* start_transcription, lines 93-121, served with no other request between
\* its status test and its writes
start_transcription(j) ==
  IF start_code(j) # 200
  THEN UNCHANGED <<jobs_status, files, thr, starting>>
  ELSE /\ Launch(j)
       /\ UNCHANGED <<files, starting>>

\* get_status, lines 153-169: the JSON body it answers with, 404 for an
\* unknown job
status_body(j) ==
  IF j \notin DOMAIN jobs_status THEN [error |-> "Job nao encontrado"]
  ELSE LET job == jobs_status[j] IN
       [job_id |-> j, status |-> job["status"], progress |-> job["progress"],
        message |-> job["message"], filename |-> job["filename"],
        result_file |-> Get(job, "result_file"),
        language_code |-> Get(job, "language_code"),
        created_at |-> job["created_at"],
        completed_at |-> Get(job, "completed_at")]

get_status(j) ==
  /\ ("error" \in DOMAIN status_body(j)) <=> (j \notin DOMAIN jobs_status)
  /\ UNCHANGED <<jobs_status, files, thr, starting>>

\* download_code with the test of line 178 refusing only an uploaded job
download_code_uploaded_only(j) ==
  IF j \notin DOMAIN jobs_status THEN 404
  ELSE IF jobs_status[j]["status"] = "uploaded" THEN 400
  ELSE IF "result_file" \notin DOMAIN jobs_status[j] THEN 500
  ELSE IF jobs_status[j]["result_file"] \notin DOMAIN files THEN 404
  ELSE 200

\* download_result, lines 172-193; 500 is the KeyError of line 181
download_code(j) ==
  IF j \notin DOMAIN jobs_status THEN 404
  ELSE IF jobs_status[j]["status"] # "completed" THEN 400
  ELSE IF "result_file" \notin DOMAIN jobs_status[j] THEN 500
  ELSE IF jobs_status[j]["result_file"] \notin DOMAIN files THEN 404
  ELSE 200

download_result(j) ==
  /\ download_code(j) >= 200
  /\ UNCHANGED <<jobs_status, files, thr, starting>>

\* ======================================================== background thread
InputPath(t) == JobOf(t)["filepath"]
Converts(t) == InputPath(t).ext \in ConvertSuffixes
\* converted_file of transcribe_audio (line 294), output_file of convert_to_mp3
ConvertedFile(t) == with_suffix_mp3(InputPath(t))
\* process_file, lines 298 and 300
ProcessFile(t) == IF Converts(t) THEN ConvertedFile(t) ELSE InputPath(t)

\* transcribe_audio returns {'success': False, 'error': e}; process_transcription
\* then tests result['success'] (app.py:136)
Fail(t, e, outcome) ==
  thr' = [thr EXCEPT ![t] =
            [IdleThread EXCEPT !.job = thr[t].job, !.pc = "pt_result",
                               !.proc = thr[t].proc, !.outcome = outcome,
                               !.result = [success |-> FALSE, error |-> e]]]

\* process_transcription, lines 126-131, and the suffix test of
\* transcribe_audio, lines 282-283
pt_start(t) ==
  /\ thr[t].pc = "pt_start"
  /\ SetJob(t, Progress(JobOf(t), 10, "Convertendo arquivo..."))
  /\ Goto(t, IF Converts(t) THEN "conv_popen" ELSE "ta_upload_prog")
  /\ UNCHANGED <<files, starting>>

\* convert_to_mp3, lines 63-66: subprocess.Popen, which raises when the
\* encoder cannot be started (caught at line 81: the generator ends)
conv_popen(t) ==
  /\ thr[t].pc = "conv_popen"
  /\ \/ thr' = [thr EXCEPT ![t].pc = "conv_loop", ![t].proc = "running",
                           ![t].conv = 0]
     \/ thr' = [thr EXCEPT ![t].pc = "conv_check", ![t].proc = "raised"]
  /\ UNCHANGED <<jobs_status, files, starting>>

\* The encoder process ends: exit code 0 leaves the output file; another exit
\* code leaves a partial output file, or none.
ffmpeg_exit(t) ==
  /\ thr[t].proc = "running"
  /\ \/ /\ thr' = [thr EXCEPT ![t].proc = "exit0"]
        /\ files' = Put(files, ConvertedFile(t), Encoded(thr[t].job, TRUE))
     \/ /\ thr' = [thr EXCEPT ![t].proc = "exit1"]
        /\ \/ files' = Put(files, ConvertedFile(t),
                           Encoded(thr[t].job, FALSE))
           \/ files' = files
  /\ UNCHANGED <<jobs_status, starting>>

\* job_status['progress'] = 10 + int(progress * 0.3), line 290; int(p * 0.3)
\* is (3 * p) \div 10 for every p of 0..100 in Python's floats
ConvProgress(p) == 10 + ((3 * p) \div 10)
ConvMessage(p) == "Convertendo arquivo... " \o ToString(p) \o "%"

\* conv_yield without the cap
conv_yield_uncapped(conv) == conv

\* yield min(int(elapsed * 10), 90), lines 69-70, conv being int(elapsed * 10)
conv_yield(conv) == Min(conv, 90)

\* One iteration of `while process.poll() is None` (lines 67-71) with the body
\* of the consuming for loop (lines 288-292), or the exit of the loop
\* (lines 73-79).  conv is int(elapsed * 10).
conv_loop(t) ==
  /\ thr[t].pc = "conv_loop"
  /\ \/ /\ thr[t].proc = "running"
        /\ SetJob(t, Progress(JobOf(t), ConvProgress(conv_yield(thr[t].conv)),
                              ConvMessage(conv_yield(thr[t].conv))))
        /\ \E d \in TickSteps :
             thr' = [thr EXCEPT ![t].conv = Min(@ + d, ConvClockCap)]
     \/ /\ thr[t].proc = "exit0"
        /\ SetJob(t, Progress(JobOf(t), ConvProgress(100), ConvMessage(100)))
        /\ Goto(t, "conv_check")
     \/ /\ thr[t].proc = "exit1"
        /\ Goto(t, "conv_check")
        /\ UNCHANGED jobs_status
  /\ UNCHANGED <<files, starting>>

\* transcribe_audio, lines 294-298
conv_check(t) ==
  /\ thr[t].pc = "conv_check"
  /\ IF ConvertedFile(t) \notin DOMAIN files
     THEN Fail(t, "Falha na conversao", "conversion_failed")
     ELSE thr' = [thr EXCEPT ![t].pc = "ta_upload_prog", ![t].conv = 0]
  /\ UNCHANGED <<jobs_status, files, starting>>

\* transcribe_audio, lines 303-305
ta_upload_prog(t) ==
  /\ thr[t].pc = "ta_upload_prog"
  /\ SetJob(t, Progress(JobOf(t), 40, "Enviando arquivo..."))
  /\ Goto(t, "upload_post")
  /\ UNCHANGED <<files, starting>>

\* TranscriptionService.upload_file, lines 87-115: open() raises on a missing
\* file, the POST answers 200 or not
upload_post(t) ==
  /\ thr[t].pc = "upload_post"
  /\ \/ /\ ProcessFile(t) \in DOMAIN files
        /\ SetJob(t, Progress(JobOf(t), 50,
                              "Upload concluido! Iniciando transcricao..."))
        /\ Goto(t, "ta_transcribe_prog")
     \/ /\ Fail(t, "Falha no upload", "upload_failed")
        /\ UNCHANGED jobs_status
  /\ UNCHANGED <<files, starting>>

\* transcribe_audio, lines 312-314
ta_transcribe_prog(t) ==
  /\ thr[t].pc = "ta_transcribe_prog"
  /\ SetJob(t, Progress(JobOf(t), 50, "Processando transcricao..."))
  /\ Goto(t, "api_submit_prog")
  /\ UNCHANGED <<files, starting>>

\* transcribe_audio_api, lines 133-135
api_submit_prog(t) ==
  /\ thr[t].pc = "api_submit_prog"
  /\ SetJob(t, Progress(JobOf(t), 55, "Iniciando transcricao..."))
  /\ Goto(t, "api_submit")
  /\ UNCHANGED <<files, starting>>

\* transcribe_audio_api, lines 137-154
api_submit(t) ==
  /\ thr[t].pc = "api_submit"
  /\ \/ thr' = [thr EXCEPT ![t].pc = "api_poll", ![t].attempts = 0]
     \/ Fail(t, "Falha na transcricao", "submit_failed")
  /\ UNCHANGED <<jobs_status, files, starting>>

\* lines 171-181: the progress and the message of one poll
PollProgress(status, elapsed_time) ==
  IF status = "queued"
  THEN base_progress + Min(elapsed_time * 2, 10)
  ELSE IF status = "processing"
  THEN base_progress + 10 + Min(elapsed_time * 3, 25)
  ELSE base_progress + 35

PollMessage(status) ==
  IF status = "queued" THEN "Aguardando na fila..."
  ELSE IF status = "processing" THEN "Processando transcricao..."
  ELSE "Finalizando..."

\* time.time() - start_time at line 170: every earlier iteration slept
\* PollInterval seconds (line 204); the duration of the requests is left out
elapsed_time(t) == Min(PollInterval * thr[t].attempts, ElapsedCap)

\* PollWrite storing 100 with the message "Finalizando..."
PollWrite_final_hundred(status, e) ==
  IF status \in {"queued", "processing"}
  THEN Min(PollProgress(status, e), 90)
  ELSE 100

\* job_status['progress'] = min(progress, 90), line 185
PollWrite(status, e) == Min(PollProgress(status, e), 90)

\* keep_polling with the bound of the loop off by one
keep_polling_inclusive(attempts) == attempts <= max_attempts

\* while attempts < max_attempts, line 156
keep_polling(attempts) == attempts < max_attempts

\* next_attempts without the increment
next_attempts_stuck(attempts) == attempts

\* attempts += 1, line 205
next_attempts(attempts) == attempts + 1

\* One iteration of the polling loop, lines 156-205, or its exit at line 207
api_poll(t) ==
  /\ thr[t].pc = "api_poll"
  /\ \/ /\ keep_polling(thr[t].attempts)
        /\ \/ /\ Fail(t, "Falha na transcricao", "poll_failed")
              /\ UNCHANGED jobs_status
           \/ \E status \in RemoteStatus :
                /\ SetJob(t, Progress(JobOf(t),
                              PollWrite(status, elapsed_time(t)),
                              PollMessage(status)))
                /\ IF status = "completed"
                   THEN \E data \in Payloads :
                          thr' = [thr EXCEPT ![t].pc = "api_completed",
                                             ![t].attempts = 0,
                                             ![t].data = data]
                   ELSE IF status = "error"
                   THEN Fail(t, "Falha na transcricao", "remote_error")
                   ELSE thr' = [thr EXCEPT
                                  ![t].attempts = next_attempts(@)]
     \/ /\ ~keep_polling(thr[t].attempts)
        /\ Fail(t, "Falha na transcricao", "timeout")
        /\ UNCHANGED jobs_status
  /\ UNCHANGED <<files, starting>>

\* transcribe_audio_api, lines 193-198
api_completed(t) ==
  /\ thr[t].pc = "api_completed"
  /\ SetJob(t, Progress(JobOf(t), 95, "Transcricao concluida!"))
  /\ thr' = [thr EXCEPT ![t].pc = "ta_save_prog", ![t].outcome = "completed"]
  /\ UNCHANGED <<files, starting>>

\* transcribe_audio, lines 320-323
ta_save_prog(t) ==
  /\ thr[t].pc = "ta_save_prog"
  /\ SetJob(t, Progress(JobOf(t), 95, "Salvando resultado..."))
  /\ Goto(t, "save_transcript")
  /\ UNCHANGED <<files, starting>>

\* save_transcript, lines 216-276 (the report text is not part of the state),
\* and the test of line 326
save_transcript(t) ==
  /\ thr[t].pc = "save_transcript"
  /\ \/ /\ files' = Put(files, TranscriptPath(InputPath(t)),
                           content(thr[t].data))
        /\ Goto(t, IF Converts(t) THEN "cleanup" ELSE "ta_final")
     \/ /\ Fail(t, "Falha ao salvar transcricao", "save_failed")
        /\ UNCHANGED files
  /\ UNCHANGED <<jobs_status, starting>>

\* cleanup with the exception of unlink not swallowed: it reaches the handler
\* of line 353
cleanup_raising(t) ==
  /\ thr[t].pc = "cleanup"
  /\ \/ /\ files' = unlink(files, ConvertedFile(t))
        /\ Goto(t, "ta_final")
     \/ /\ files' = files
        /\ Fail(t, "unlink", "cleanup_failed")
  /\ UNCHANGED <<jobs_status, starting>>

\* transcribe_audio, lines 330-334: unlink, any exception swallowed
cleanup(t) ==
  /\ thr[t].pc = "cleanup"
  /\ \/ files' = unlink(files, ConvertedFile(t))
     \/ files' = files
  /\ Goto(t, "ta_final")
  /\ UNCHANGED <<jobs_status, starting>>

\* transcribe_audio, lines 336-351
ta_final(t) ==
  /\ thr[t].pc = "ta_final"
  /\ SetJob(t, Progress(JobOf(t), 100, "Transcricao concluida com sucesso!"))
  /\ thr' = [thr EXCEPT
       ![t].pc = "pt_result", ![t].data = EmptyDict,
       ![t].result =
         [success |-> TRUE,
          transcript_file |-> TranscriptPath(InputPath(t)),
          language_code |-> Get(thr[t].data, "language_code"),
          speakers_count |-> speakers_count(thr[t].data),
          message |-> "Transcricao concluida com sucesso!"]]
  /\ UNCHANGED <<files, starting>>

\* process_transcription, lines 136-137 and 143-144
pt_result(t) ==
  /\ thr[t].pc = "pt_result"
  /\ IF thr[t].result.success
     THEN /\ SetJob(t, Put(JobOf(t), "status", "completed"))
          /\ Goto(t, "pt_progress")
     ELSE /\ SetJob(t, Put(JobOf(t), "status", "error"))
          /\ Goto(t, "pt_err_message")
  /\ UNCHANGED <<files, starting>>

\* process_transcription, line 138
pt_progress(t) ==
  /\ thr[t].pc = "pt_progress"
  /\ SetJob(t, Put(JobOf(t), "progress", 100))
  /\ Goto(t, "pt_message")
  /\ UNCHANGED <<files, starting>>

\* process_transcription, line 139
pt_message(t) ==
  /\ thr[t].pc = "pt_message"
  /\ SetJob(t, Put(JobOf(t), "message", "Transcricao concluida!"))
  /\ Goto(t, "pt_result_file")
  /\ UNCHANGED <<files, starting>>

\* process_transcription, line 140
pt_result_file(t) ==
  /\ thr[t].pc = "pt_result_file"
  /\ SetJob(t, Put(JobOf(t), "result_file", thr[t].result.transcript_file))
  /\ Goto(t, "pt_language")
  /\ UNCHANGED <<files, starting>>

\* process_transcription, line 141
pt_language(t) ==
  /\ thr[t].pc = "pt_language"
  /\ SetJob(t, Put(JobOf(t), "language_code", thr[t].result.language_code))
  /\ Goto(t, "pt_completed_at")
  /\ UNCHANGED <<files, starting>>

\* process_transcription, line 142
pt_completed_at(t) ==
  /\ thr[t].pc = "pt_completed_at"
  /\ SetJob(t, Put(JobOf(t), "completed_at", "now"))
  /\ Return(t)
  /\ UNCHANGED <<files, starting>>

\* process_transcription, line 145
pt_err_message(t) ==
  /\ thr[t].pc = "pt_err_message"
  /\ SetJob(t, Put(JobOf(t), "message", "Erro: " \o thr[t].result.error))
  /\ Return(t)
  /\ UNCHANGED <<files, starting>>

ThreadStep(t) ==
  \/ pt_start(t) \/ conv_popen(t) \/ conv_loop(t) \/ conv_check(t)
  \/ ta_upload_prog(t) \/ upload_post(t) \/ ta_transcribe_prog(t)
  \/ api_submit_prog(t) \/ api_submit(t) \/ api_poll(t) \/ api_completed(t)
  \/ ta_save_prog(t) \/ save_transcript(t) \/ cleanup(t) \/ ta_final(t)
  \/ pt_result(t) \/ pt_progress(t) \/ pt_message(t) \/ pt_result_file(t)
  \/ pt_language(t) \/ pt_completed_at(t) \/ pt_err_message(t)

Next ==
  \/ \E stem \in Stems, ext \in UploadExts : upload_file(stem, ext)
  \/ \E j \in JobIds : start_check(j)
  \/ \E j \in JobIds : start_act(j)
  \/ \E j \in JobIds : get_status(j)
  \/ \E j \in JobIds : download_result(j)
  \/ \E t \in Threads : ffmpeg_exit(t)
  \/ \E t \in Threads : ThreadStep(t)

Spec == Init /\ [][Next]_vars

\* The requests served one after the other (a server with one request
\* thread): every job is started at most once.
NextSerial ==
  \/ \E stem \in Stems, ext \in UploadExts : upload_file(stem, ext)
  \/ \E j \in JobIds : start_transcription(j)
  \/ \E j \in JobIds : get_status(j)
  \/ \E j \in JobIds : download_result(j)
  \/ \E t \in Threads : ffmpeg_exit(t)
  \/ \E t \in Threads : ThreadStep(t)

\* A started thread is scheduled again and again (it is never suspended for
\* ever), and each of its external calls returns; nothing makes the encoder
\* process exit.
FairSpec ==
  Init /\ [][NextSerial]_vars /\ \A t \in Threads : WF_vars(ThreadStep(t))

\* The end of a run of an .mp3 job whose poll has returned 'completed' with
\* any payload of ReportPayloads: save_transcript renders the report and
\* transcribe_audio computes its result from the payload.
ReportInit ==
  /\ jobs_status =
       Put(EmptyDict, 1,
           [status |-> "processing", filename |-> "t_a.mp3",
            filepath |-> Path("uploads", "t_a", "mp3"), progress |-> 95,
            message |-> "Salvando resultado...", created_at |-> "now"])
  /\ files = Put(EmptyDict, Path("uploads", "t_a", "mp3"), Upload(1))
  /\ \E data \in ReportPayloads :
       thr = [t \in Threads |->
                IF t = 1
                THEN [IdleThread EXCEPT !.job = 1, !.pc = "save_transcript",
                                        !.outcome = "completed",
                                        !.data = data]
                ELSE IdleThread]
  /\ starting = [j \in JobIds |-> 0]

ReportNext == \E t \in Threads : save_transcript(t) \/ ta_final(t)

ReportSpec == ReportInit /\ [][ReportNext]_vars

\* Two uploads served within one second, "a.ogg" and "a.mp3": both saved
\* names start with the same timestamp (app.py:64-65), so the two source
\* paths differ in the extension only.  Each job is then started once.
TwoJobsInit ==
  /\ jobs_status =
       Put(Put(EmptyDict, 1,
               [status |-> "uploaded", filename |-> "t_a.ogg",
                filepath |-> Path("uploads", "t_a", "ogg"), progress |-> 0,
                message |-> "Arquivo enviado com sucesso",
                created_at |-> "now"]),
           2,
           [status |-> "uploaded", filename |-> "t_a.mp3",
            filepath |-> Path("uploads", "t_a", "mp3"), progress |-> 0,
            message |-> "Arquivo enviado com sucesso", created_at |-> "now"])
  /\ files = Put(Put(EmptyDict, Path("uploads", "t_a", "ogg"), Upload(1)),
                 Path("uploads", "t_a", "mp3"), Upload(2))
  /\ thr = [t \in Threads |-> IdleThread]
  /\ starting = [j \in JobIds |-> 0]

TwoJobsNext ==
  \/ \E j \in DOMAIN jobs_status : start_transcription(j)
  \/ \E t \in Threads : ffmpeg_exit(t)
  \/ \E t \in Threads : ThreadStep(t)

TwoJobsSpec == TwoJobsInit /\ [][TwoJobsNext]_vars

\* ================================================================== claims
Status(j) == jobs_status[j]["status"]
ProgressOf(j) == jobs_status[j]["progress"]
Terminal == {"completed", "error"}
\* The runs and the admitted start requests of job j
RunsOf(j) == {t \in Threads : thr[t].job = j}
\* Job j has been started at most once: one admitted request or one run
StartedOnce(j) == starting[j] + Cardinality(RunsOf(j)) <= 1

\* C1: the status of a job only moves uploaded -> processing -> completed or
\* uploaded -> processing -> error; completed and error are never left.
StatusForwardOnly ==
  [][\A j \in DOMAIN jobs_status :
       /\ Status(j) = "uploaded" =>
            jobs_status'[j]["status"] \in {"uploaded", "processing"}
       /\ Status(j) = "processing" =>
            jobs_status'[j]["status"] \in {"processing", "completed", "error"}
       /\ Status(j) \in Terminal => jobs_status'[j]["status"] = Status(j)]_vars

\* C2: within one run of a job (the job started once), no step stores a
\* progress lower than the progress stored before it.
ProgressNonDecreasing ==
  [][\A j \in DOMAIN jobs_status :
       StartedOnce(j) => jobs_status'[j]["progress"] >= ProgressOf(j)]_vars

\* The threads that have been spawned for a job
Running == {t \in Threads : thr[t].job \in DOMAIN jobs_status}
\* Thread t takes a step
Steps(t) == thr'[t] # thr[t]

\* C3: the polling loop sends a status request only while fewer than 60
\* polls have been answered with a non-terminal status, it gives up exactly
\* when 60 have, and the run that gave up returns a failure and writes the
\* status 'error'.
PollingBounded ==
  /\ [](\A t \in Threads :
          /\ thr[t].attempts <= max_attempts
          /\ thr[t].outcome = "timeout" => ~thr[t].result.success)
  /\ [][\A t \in Running :
          /\ (thr[t].pc = "api_poll" /\ Steps(t)
                /\ thr'[t].outcome # "timeout") =>
               thr[t].attempts < max_attempts
          /\ (thr[t].pc = "api_poll" /\ thr'[t].outcome = "timeout") =>
               thr[t].attempts = max_attempts
          /\ (thr[t].pc = "pt_result" /\ thr[t].outcome = "timeout"
                /\ Steps(t)) =>
               jobs_status'[thr[t].job]["status"] = "error"]_vars

\* A run has given up after 60 polls and has marked its job failed.
PollingTimedOut ==
  \E t \in Running :
    /\ thr[t].outcome = "timeout"
    /\ thr[t].pc = "pt_err_message"
    /\ Status(thr[t].job) = "error"

\* C4: a run whose polling timed out and a run whose provider reported
\* 'error' return different results to process_transcription (so that the
\* messages recorded from them differ).
TimeoutDistinctFromRemoteError ==
  \A t1, t2 \in Threads :
    (thr[t1].outcome = "timeout" /\ thr[t2].outcome = "remote_error") =>
      thr[t1].result # thr[t2].result

\* C5: every write of the polling loop stores at most 90, and a step stores
\* 100 only for a run whose poll has returned 'completed'.
PollBelowHundred ==
  [][/\ \A t \in Running :
          (thr[t].pc = "api_poll" /\ Steps(t)
             /\ jobs_status'[thr[t].job] # jobs_status[thr[t].job]) =>
            jobs_status'[thr[t].job]["progress"] <= 90
     /\ \A j \in DOMAIN jobs_status :
          (jobs_status'[j]["progress"] = 100 /\ ProgressOf(j) # 100) =>
            \E t \in RunsOf(j) : /\ thr[t].outcome = "completed"
                                 /\ Steps(t)]_vars

\* A poll after the first has been answered 'processing' and has stored 90.
PollStoredNinety ==
  \E t \in Running :
    /\ thr[t].pc = "api_poll"
    /\ thr[t].attempts > 1
    /\ ProgressOf(thr[t].job) = 90

\* C6: a start request for a job that is not 'uploaded' is answered 400 and
\* no step of it changes anything: no field of the job, no thread, no
\* admitted request.
StartRejected ==
  \A j \in DOMAIN jobs_status :
    Status(j) # "uploaded" =>
      /\ start_code(j) = 400
      /\ ~ENABLED <<start_check(j)>>_vars

\* A job has failed and a start request for it is refused.
StartRefusedOnFailed ==
  \E j \in DOMAIN jobs_status : Status(j) = "error" /\ start_code(j) = 400

\* C7: download_result serves the file only for a 'completed' job, answers
\* 400 for an uploaded, processing or failed job, and changes nothing.
DownloadOnlyCompleted ==
  \A j \in DOMAIN jobs_status :
    /\ download_code(j) = 200 => Status(j) = "completed"
    /\ Status(j) \in {"uploaded", "processing", "error"} =>
         download_code(j) = 400
    /\ ~ENABLED <<download_result(j)>>_vars

\* The result of a completed job is served.
DownloadServed ==
  \E j \in DOMAIN jobs_status : download_code(j) = 200

\* C8: a run in which a step has failed (the encoder could not be started or
\* exited with a non-zero code, or transcribe_audio returned a failure) is
\* recorded by process_transcription as status 'error' with a message that
\* starts with "Erro: ", and then the thread ends.
FailuresEndFailed ==
  [][\A t \in Running :
       /\ (thr[t].pc = "pt_result" /\ Steps(t)
             /\ (~thr[t].result.success
                   \/ thr[t].proc \in {"exit1", "raised"})) =>
            (jobs_status'[thr[t].job]["status"] = "error"
               /\ thr'[t].pc = "pt_err_message")
       /\ (thr[t].pc = "pt_err_message" /\ Steps(t)) =>
            (jobs_status'[thr[t].job]["message"] =
               "Erro: " \o thr[t].result.error
               /\ thr'[t].pc = "done")]_vars

\* C10: when a successful run has finished marking its job completed, the job
\* dict holds the result path, the language, the completion time and the
\* speaker count the run computed.
CompletedRecordComplete ==
  [][\A t \in Running :
       (thr[t].pc = "pt_completed_at" /\ thr'[t].pc = "done") =>
         /\ {"result_file", "language_code", "completed_at"}
              \subseteq DOMAIN jobs_status'[thr[t].job]
         /\ "speakers_count" \in DOMAIN jobs_status'[thr[t].job]
         /\ jobs_status'[thr[t].job]["speakers_count"] =
              thr[t].result.speakers_count]_vars

\* The utterances of the payload thread t holds, and the segments of the
\* report written for its job
InputUtterances(t) == GetOr(thr[t].data, "utterances", <<>>)
ReportSegments(fs, t) == fs[TranscriptPath(InputPath(t))].segments
\* Thread t writes the report
WritesReport(t) ==
  /\ thr[t].pc = "save_transcript"
  /\ thr'[t].pc \in {"cleanup", "ta_final"}

\* C11: the segments of the report are the utterances of the payload in
\* ascending order of start, utterances of equal start in their order in
\* the payload (the stable sort of the payload by start).
ReportStableSorted ==
  [][\A t \in Running :
       WritesReport(t) =>
         LET us == InputUtterances(t) IN
         \E p \in Permutations(DOMAIN us) :
           /\ ReportSegments(files', t) =
                [i \in DOMAIN us |-> segment(us[p[i]])]
           /\ \A i, j \in DOMAIN us :
                i < j => \/ us[p[i]].start < us[p[j]].start
                         \/ /\ us[p[i]].start = us[p[j]].start
                            /\ p[i] < p[j]]_vars

\* A report has been written from a payload that is out of order and has two
\* utterances of equal start and different speakers.
ReportOfTiedUtterances ==
  \E t \in Running :
    /\ thr[t].pc = "ta_final"
    /\ InputUtterances(t) =
         <<Utt("B", 5000, 5500), Utt("B", 1000, 1500), Utt("A", 1000, 1500)>>
    /\ Len(ReportSegments(files, t)) = 3

\* HH:MM:SS of a number of whole seconds
ClockOfSeconds(sec) ==
  fmt02d(sec \div 3600) \o ":" \o fmt02d((sec % 3600) \div 60)
    \o ":" \o fmt02d(sec % 60)

\* C12: every offset of the report is the HH:MM:SS of the whole seconds of
\* the utterance's offset in milliseconds; 3723000 ms is 01:02:03.
OffsetsRenderedFromMilliseconds ==
  [][\A t \in Running :
       WritesReport(t) =>
         LET us == InputUtterances(t)
             out == ReportSegments(files', t) IN
         /\ {out[i].start_time : i \in DOMAIN out} =
              {ClockOfSeconds(us[i].start \div 1000) : i \in DOMAIN us}
         /\ {out[i].end_time : i \in DOMAIN out} =
              {ClockOfSeconds(us[i].end \div 1000) : i \in DOMAIN us}
         /\ (\E i \in DOMAIN us : us[i].start = 3723000) =>
              (\E i \in DOMAIN out : out[i].start_time = "01:02:03")]_vars

\* C13: the speaker count a successful run returns is the number of
\* distinct speaker labels of the payload's utterances, 0 for no utterance.
SpeakerCountDistinctLabels ==
  [][\A t \in Running :
       (thr[t].pc = "ta_final" /\ Steps(t)) =>
         LET us == InputUtterances(t) IN
         /\ thr'[t].result.success
         /\ thr'[t].result.speakers_count =
              Cardinality({us[i].speaker : i \in DOMAIN us})
         /\ us = <<>> => thr'[t].result.speakers_count = 0]_vars

\* A run has returned the count 2 for a payload of three utterances.
TwoSpeakersOfThreeUtterances ==
  \E t \in Running :
    /\ thr[t].pc = "pt_result"
    /\ thr[t].result.success
    /\ thr[t].result.speakers_count = 2
    /\ Len(files[thr[t].result.transcript_file].segments) = 3

\* The step of transcribe_audio a position belongs to: 1 conversion, 2 upload,
\* 3 submit, 4 poll, 5 report, 6 cleanup and result; 0 and 7 are
\* process_transcription before and after the call
StageOf(pc) ==
  IF pc = "pt_start" THEN 0
  ELSE IF pc \in {"conv_popen", "conv_loop", "conv_check"} THEN 1
  ELSE IF pc \in {"ta_upload_prog", "upload_post"} THEN 2
  ELSE IF pc \in {"ta_transcribe_prog", "api_submit_prog", "api_submit"}
  THEN 3
  ELSE IF pc \in {"api_poll", "api_completed"} THEN 4
  ELSE IF pc \in {"ta_save_prog", "save_transcript"} THEN 5
  ELSE IF pc \in {"cleanup", "ta_final"} THEN 6
  ELSE 7
\* The failures of the steps after the conversion
LaterFailures ==
  {"upload_failed", "submit_failed", "poll_failed", "remote_error",
   "timeout", "save_failed"}

\* C14: a run whose encoder process has exited with a non-zero code goes on
\* to no upload and to no later step, and returns the conversion failure,
\* whether the output file exists or not.
EncoderFailureStopsRun ==
  \A t \in Running :
    thr[t].proc = "exit1" =>
      /\ StageOf(thr[t].pc) \in {1, 7}
      /\ StageOf(thr[t].pc) = 7 => thr[t].outcome = "conversion_failed"

\* C15: when a run that converted its source has failed at a later step, the
\* converted file is gone by the time the job is marked 'error'.
TempFileDeletedOnFailure ==
  [][\A t \in Running :
       (thr[t].pc = "pt_result" /\ Steps(t) /\ Converts(t)
          /\ thr[t].outcome \in LaterFailures) =>
         ConvertedFile(t) \notin DOMAIN files]_vars

\* C16: the steps of a run are entered in the order conversion (for a source
\* that is converted), upload, submit, poll, report; a step after the
\* conversion is entered only when the encoder has exited with code 0; a
\* run with a failed step goes to no later step.
StepsInOrder ==
  [][\A t \in Running :
       Steps(t) =>
         LET a == StageOf(thr[t].pc)
             b == StageOf(thr'[t].pc) IN
         /\ \/ b \in {a, a + 1, 7}
            \/ a = 0 /\ b = 2 /\ ~Converts(t)
         /\ (a = 0 /\ Converts(t)) => b = 1
         /\ (b \in 2..6 /\ Converts(t)) => thr'[t].proc = "exit0"
         /\ thr[t].outcome \notin {"none", "completed"} => b = 7]_vars

\* C17: at most one background thread is ever started for a job.
AtMostOneRunPerJob ==
  \A j \in JobIds : Cardinality(RunsOf(j)) <= 1

\* C18: once the status of a job is 'completed' or 'error' no thread of the
\* job takes a step and the job dict is not written; and no step of
\* transcribe_audio changes the status of the job.
TerminalJobUntouched ==
  [][/\ \A j \in DOMAIN jobs_status :
          Status(j) \in Terminal =>
            /\ jobs_status'[j] = jobs_status[j]
            /\ \A t \in RunsOf(j) : ~Steps(t)
     /\ \A t \in Running :
          (Steps(t) /\ StageOf(thr[t].pc) \in 1..6) =>
            jobs_status'[thr[t].job]["status"] = Status(thr[t].job)]_vars

\* Thread t is in the conversion loop and takes the step; an iteration with
\* the clock at ConvClockCap leaves the thread as it is
Yields(t) ==
  /\ thr[t].pc = "conv_loop"
  /\ \/ Steps(t)
     \/ thr' = thr /\ thr[t].proc = "running" /\ thr[t].conv = ConvClockCap

\* C19: a value the conversion loop yields while the encoder process runs is
\* at most 90, 100 is yielded only after the process has exited with code
\* 0, and nothing is yielded after another exit code.
NormalizerProgressCapped ==
  [][\A t \in Running :
       (Yields(t) /\ jobs_status'[thr[t].job] # jobs_status[thr[t].job]) =>
         /\ thr[t].proc \in {"running", "exit0"}
         /\ thr[t].proc = "running" =>
              \E p \in 0..90 :
                /\ jobs_status'[thr[t].job]["message"] = ConvMessage(p)
                /\ jobs_status'[thr[t].job]["progress"] = ConvProgress(p)
         /\ thr[t].proc = "exit0" =>
              jobs_status'[thr[t].job]["message"] = ConvMessage(100)]_vars

\* The encoder has run for more than 9 seconds and the last value yielded
\* is 90.
NormalizerAtCap ==
  \E t \in Running :
    /\ thr[t].pc = "conv_loop"
    /\ thr[t].proc = "running"
    /\ thr[t].conv > 90
    /\ JobOf(t)["message"] = ConvMessage(90)

\* The job of thread t is completed and its result path is recorded
CompletedWithResult(t) ==
  /\ thr[t].job \in DOMAIN jobs_status
  /\ Status(thr[t].job) = "completed"
  /\ "result_file" \in DOMAIN JobOf(t)
  /\ JobOf(t)["result_file"] \in DOMAIN files

\* C20: a run that has saved its report and fails to delete the converted
\* file goes on to its result, and its job ends completed with the result
\* path recorded.
DeleteFailureKeepsCompleted ==
  /\ [][\A t \in Running :
          (thr[t].pc = "cleanup" /\ Steps(t)
             /\ ConvertedFile(t) \in DOMAIN files') =>
            thr'[t].pc = "ta_final"]_vars
  /\ \A t \in Threads :
       (thr[t].pc \in {"cleanup", "ta_final"}) ~> CompletedWithResult(t)

\* A job is completed with its result recorded and the converted file is
\* still there.
CompletedWithTempFileLeft ==
  \E t \in Running :
    /\ thr[t].pc = "done"
    /\ CompletedWithResult(t)
    /\ Converts(t)
    /\ ConvertedFile(t) \in DOMAIN files

\* C21: in every state (any of them can be read by get_status or
\* download_result) a completed job has its result path recorded and a job
\* with progress 100 is completed.
ReaderSeesConsistentCompleted ==
  \A j \in DOMAIN jobs_status :
    /\ Status(j) = "completed" => "result_file" \in DOMAIN jobs_status[j]
    /\ ProgressOf(j) = 100 => Status(j) = "completed"

\* C22: no step of the run of a job changes or removes the file at the
\* source path of another job.
SourcesUntouched ==
  [][\A t \in Running :
       \A j \in DOMAIN jobs_status \ {thr[t].job} :
         LET source == jobs_status[j]["filepath"] IN
         (Steps(t) /\ source \in DOMAIN files) =>
           /\ source \in DOMAIN files'
           /\ files'[source] = files[source]]_vars

\* Job j is being processed / has reached a terminal status
Processing(j) == j \in DOMAIN jobs_status /\ Status(j) = "processing"
Ended(j) == j \in DOMAIN jobs_status /\ Status(j) \in Terminal
\* The encoder process of a run of job j has been started and has not exited
EncoderRuns(j) == \E t \in RunsOf(j) : thr[t].proc = "running"

\* C9: a job that is processing eventually reaches completed or error.
EventuallyTerminal == \A j \in JobIds : Processing(j) ~> Ended(j)

\* C9, given an encoder that exits: unless the encoder process of its run
\* keeps running for ever, a job that is processing eventually reaches
\* completed or error.
TerminalUnlessEncoderHangs ==
  \A j \in JobIds : (<>[]EncoderRuns(j)) \/ (Processing(j) ~> Ended(j))

\* A converted job has gone through conversion and polling and is completed.
ConvertedJobCompleted ==
  \E t \in Running :
    /\ thr[t].pc = "done"
    /\ JobOf(t)["filepath"].ext \in ConvertSuffixes
    /\ Status(thr[t].job) = "completed"

====
